---- MODULE Spec2Model ----
(***************************************************************************)
(* Model of xyz_2Dsplit (src/preprocessing.py): a 2D scatter of points is  *)
(* cut into a grid of (possibly overlapping) tiles, then undersized        *)
(* boundary tiles and sparse tiles are merged into neighbours.             *)
(*                                                                         *)
(* Numbers.  Coordinates and tile sizes are integers; an overlap fraction  *)
(* is ov / OvDen.  Every length the code computes is kept multiplied by    *)
(* OvDen, so that step = size * (1 - ov/OvDen) stays an integer and all    *)
(* comparisons are exact.  The parameters are floats, as annotated in the  *)
(* signature, so a zero step makes divmod yield nan and int(nan) raise.    *)
(*                                                                         *)
(* Stages.  The call is one function; its stages are the actions Call      *)
(* (Grid Sizer and Cell Assigner), BoundaryMerge, SparseBegin (the         *)
(* snapshot), SparseStep (one iteration over the snapshot) and Return.     *)
(* The dict keeps insertion order, which is row-major and which pops do    *)
(* not disturb, so the snapshot is the row-major sequence of the keys.     *)
(* assigned and start are history variables: they record split_idx at two  *)
(* stages and are never read by an action.                                 *)
(***************************************************************************)
EXTENDS Integers, Sequences, FiniteSets, Bags, TLC

\* ---- bounds of the model ----
MaxN == 3          \* at most MaxN points in a call within the contract
MaxNAny == 2       \* at most MaxNAny points in an arbitrary call
MaxCoord == 3      \* coordinates are drawn from 0..MaxCoord
MaxTile == 2       \* tile sizes are drawn from -1..MaxTile
OvDen == 2         \* overlap fractions are drawn from {ov / OvDen : ov \in 0..OvDen}
MaxPt == 1         \* ptBrokenMerge is None or in 0..MaxPt

\* ptBrokenMerge = None (the merge is disabled); thresholds are >= 0
None == 0 - 1

VARIABLES horizontalAxis, verticalAxis, rowH, colW, overlapH, overlapW,
          areaBrokenMerge, ptBrokenMerge,   \* the arguments of the call
          split_idx,    \* the mapping (row, col) -> list of point indices
          todo,         \* the keys of the snapshot the Sparse Merger has yet to visit
          pc,           \* the stage the call has reached
          assigned,     \* history: split_idx as the Cell Assigner left it
          start         \* history: split_idx when the Sparse Merger took its snapshot

args == <<horizontalAxis, verticalAxis, rowH, colW, overlapH, overlapW,
          areaBrokenMerge, ptBrokenMerge>>
vars == <<horizontalAxis, verticalAxis, rowH, colW, overlapH, overlapW,
          areaBrokenMerge, ptBrokenMerge, split_idx, todo, pc, assigned, start>>

\* ---- helpers ----
EmptyMap == [k \in {} |-> <<>>]

RECURSIVE SeqMax(_)
SeqMax(s) == IF Len(s) = 1 THEN s[1]
             ELSE LET r == SeqMax(Tail(s)) IN IF s[1] >= r THEN s[1] ELSE r

RECURSIVE SeqMin(_)
SeqMin(s) == IF Len(s) = 1 THEN s[1]
             ELSE LET r == SeqMin(Tail(s)) IN IF s[1] <= r THEN s[1] ELSE r

\* np.clip(v, lo, hi)
Clip(v, lo, hi) == IF v < lo THEN lo ELSE IF v > hi THEN hi ELSE v

\* Python's floor division, for a >= 0 and b # 0
FloorDiv(a, b) == IF b > 0 THEN a \div b ELSE 0 - ((a + (0 - b) - 1) \div (0 - b))

\* ---- Grid Sizer (all lengths times OvDen) ----
Step(size, ov) == size * (OvDen - ov)
Range(axis) == OvDen * (SeqMax(axis) - SeqMin(axis))
Nums(axis, size, ov) == FloorDiv(Range(axis), Step(size, ov))
Extra(axis, size, ov) == Range(axis) - Nums(axis, size, ov) * Step(size, ov)

xNums == Nums(horizontalAxis, colW, overlapW)
yNums == Nums(verticalAxis, rowH, overlapH)
xExtra == Extra(horizontalAxis, colW, overlapW)
yExtra == Extra(verticalAxis, rowH, overlapH)

\* ---- Cell Assigner ----
\* mutant: the upper bound of a tile is exclusive
Judge_UpperOpen(lo, hi, size, ov, i, v) ==
    /\ OvDen * lo + i * Step(size, ov) <= OvDen * v
    /\ OvDen * v < Clip(OvDen * lo + i * Step(size, ov) + OvDen * size, OvDen * lo, OvDen * hi)

\* mutant: the lower bound of a tile is exclusive, except for the first tile
Judge_LowerOpen(lo, hi, size, ov, i, v) ==
    /\ \/ OvDen * lo + i * Step(size, ov) < OvDen * v
       \/ i = 0 /\ lo = v
    /\ OvDen * v <= Clip(OvDen * lo + i * Step(size, ov) + OvDen * size, OvDen * lo, OvDen * hi)

\* judge[i] of one axis, evaluated at one coordinate v; lo and hi are the
\* axis' minimum and maximum
Judge(lo, hi, size, ov, i, v) ==
    /\ OvDen * lo + i * Step(size, ov) <= OvDen * v
    /\ OvDen * v <= Clip(OvDen * lo + i * Step(size, ov) + OvDen * size, OvDen * lo, OvDen * hi)

\* np.where(judgeX & judgeY)[0].tolist(): the indices both masks hold, ascending
ValidIdx(judgeX, judgeY) ==
    SelectSeq([p \in 1..Len(horizontalAxis) |-> p - 1],
              LAMBDA p: p \in judgeX /\ p \in judgeY)

\* one key per tile of the grid that holds a point
CellAssign ==
    LET minX == SeqMin(horizontalAxis)
        maxX == SeqMax(horizontalAxis)
        minY == SeqMin(verticalAxis)
        maxY == SeqMax(verticalAxis)
        idx == 0..(Len(horizontalAxis) - 1)
        judgeXresult == [i \in 0..xNums |->
            {p \in idx : Judge(minX, maxX, colW, overlapW, i, horizontalAxis[p + 1])}]
        judgeYresult == [j \in 0..yNums |->
            {p \in idx : Judge(minY, maxY, rowH, overlapH, j, verticalAxis[p + 1])}]
    IN  [k \in {c \in (0..yNums) \X (0..xNums) :
                    judgeXresult[c[2]] \cap judgeYresult[c[1]] # {}} |->
            ValidIdx(judgeXresult[k[2]], judgeYresult[k[1]])]

\* ---- merging ----
\* mutant: the donor is popped and its list is lost
Extend_DropDonor(map, to, from) ==
    [k \in DOMAIN map \ {from} |-> map[k]]

\* split_idx[to].extend(split_idx.pop(from))
Extend(map, to, from) ==
    [k \in DOMAIN map \ {from} |-> IF k = to THEN map[to] \o map[from] ELSE map[k]]

\* mutant: the donor's list is appended twice
ColMerge_Twice(map) ==
    LET moved == {k \in DOMAIN map : k[2] = xNums /\ <<k[1], xNums - 1>> \in DOMAIN map}
    IN  [k \in DOMAIN map \ moved |->
            IF k[2] = xNums - 1 /\ <<k[1], xNums>> \in moved
            THEN map[k] \o map[<<k[1], xNums>>] \o map[<<k[1], xNums>>] ELSE map[k]]

\* the rightmost column is folded into the column on its left, row by row
ColMerge(map) ==
    LET moved == {k \in DOMAIN map : k[2] = xNums /\ <<k[1], xNums - 1>> \in DOMAIN map}
    IN  [k \in DOMAIN map \ moved |->
            IF k[2] = xNums - 1 /\ <<k[1], xNums>> \in moved
            THEN map[k] \o map[<<k[1], xNums>>] ELSE map[k]]

\* the bottom row is folded into the row above it, column by column
RowMerge(map) ==
    LET moved == {k \in DOMAIN map : k[1] = yNums /\ <<yNums - 1, k[2]>> \in DOMAIN map}
    IN  [k \in DOMAIN map \ moved |->
            IF k[1] = yNums - 1 /\ <<yNums, k[2]>> \in moved
            THEN map[k] \o map[<<yNums, k[2]>>] ELSE map[k]]

ColRule == xExtra < OvDen * colW
RowRule == yExtra < OvDen * rowH

ColStage(map) == IF ColRule THEN ColMerge(map) ELSE map
RowStage(map) == IF RowRule THEN RowMerge(map) ELSE map

\* mutant: the row rule is tried only when the column rule does not apply
BoundaryMerger_Exclusive(map) ==
    IF areaBrokenMerge THEN (IF ColRule THEN ColMerge(map) ELSE RowStage(map)) ELSE map

BoundaryMerger(map) == IF areaBrokenMerge THEN RowStage(ColStage(map)) ELSE map

\* ---- Sparse Merger ----
Offsets == << <<-1, -1>>, <<-1, 0>>, <<-1, 1>>, <<0, -1>>, <<0, 0>>, <<0, 1>>,
              <<1, -1>>, <<1, 0>>, <<1, 1>> >>

\* mutant: columns two apart count as neighbours
neighbor_blocks_Wide(map, k) ==
    LET wide == << <<-1, -2>>, <<-1, -1>>, <<-1, 0>>, <<-1, 1>>, <<-1, 2>>,
                   <<0, -2>>, <<0, -1>>, <<0, 1>>, <<0, 2>>,
                   <<1, -2>>, <<1, -1>>, <<1, 0>>, <<1, 1>>, <<1, 2>> >>
        all == [i \in 1..Len(wide) |-> <<k[1] + wide[i][1], k[2] + wide[i][2]>>]
    IN  SelectSeq(all, LAMBDA b: b \in DOMAIN map)

neighbor_blocks(map, k) ==
    LET all == [i \in 1..Len(Offsets) |-> <<k[1] + Offsets[i][1], k[2] + Offsets[i][2]>>]
    IN  SelectSeq(all, LAMBDA b: b # k /\ b \in DOMAIN map)

\* mutant: the last of the smallest wins
RECURSIVE MinFrom_Last(_, _, _)
MinFrom_Last(map, blocks, best) ==
    IF blocks = <<>> THEN best
    ELSE MinFrom_Last(map, Tail(blocks),
                      IF Len(map[Head(blocks)]) <= Len(map[best]) THEN Head(blocks) ELSE best)

\* min(blocks, key=lambda blk: len(map[blk])): the first of the smallest
RECURSIVE MinFrom(_, _, _)
MinFrom(map, blocks, best) ==
    IF blocks = <<>> THEN best
    ELSE MinFrom(map, Tail(blocks),
                 IF Len(map[Head(blocks)]) < Len(map[best]) THEN Head(blocks) ELSE best)

MinBlock(map, blocks) == MinFrom(map, Tail(blocks), Head(blocks))

\* mutant: a tile is sparse only below the threshold
SparseVisit_Strict(map, k) ==
    IF Len(map[k]) < ptBrokenMerge /\ neighbor_blocks(map, k) # <<>>
    THEN Extend(map, MinBlock(map, neighbor_blocks(map, k)), k)
    ELSE map

\* one iteration of the loop over the snapshot
SparseVisit(map, k) ==
    IF Len(map[k]) <= ptBrokenMerge /\ neighbor_blocks(map, k) # <<>>
    THEN Extend(map, MinBlock(map, neighbor_blocks(map, k)), k)
    ELSE map

\* list(split_idx.items()): the keys in insertion order, which is row-major
RECURSIVE KeysInOrder(_)
KeysInOrder(keys) ==
    IF keys = {} THEN <<>>
    ELSE LET f == CHOOSE k \in keys :
                     \A o \in keys : k[1] < o[1] \/ (k[1] = o[1] /\ k[2] <= o[2])
         IN  <<f>> \o KeysInOrder(keys \ {f})

\* ---- the state machine ----
Points(maxN) == UNION {[1..n -> 0..MaxCoord] : n \in 0..maxN}

\* any call: empty arrays, non-positive tile sizes and an overlap of 1 included
InitAny ==
    /\ horizontalAxis \in Points(MaxNAny)
    /\ verticalAxis \in Points(MaxNAny)
    /\ Len(horizontalAxis) = Len(verticalAxis)
    /\ rowH \in (0 - 1)..MaxTile
    /\ colW \in (0 - 1)..MaxTile
    /\ overlapH \in 0..OvDen
    /\ overlapW \in 0..OvDen
    /\ areaBrokenMerge \in BOOLEAN
    /\ ptBrokenMerge \in {None} \cup 0..MaxPt
    /\ split_idx = EmptyMap
    /\ assigned = EmptyMap
    /\ start = EmptyMap
    /\ todo = <<>>
    /\ pc = "start"

\* Point sets of 1..MaxN points, one listing of each: the points are listed in
\* non-decreasing order of (horizontal, vertical).  A point's index enters the
\* result only as an element of the ascending index lists, so another listing
\* of the same points renames the indices.  (InitAny draws every listing.)
Listings ==
    {l \in UNION {[1..n -> 0..((MaxCoord + 1) * (MaxCoord + 1) - 1)] : n \in 1..MaxN} :
        \A i \in 1..(Len(l) - 1) : l[i] <= l[i + 1]}

\* a call within the input contract, on at least one point
Init ==
    /\ \E l \in Listings :
          /\ horizontalAxis = [i \in 1..Len(l) |-> l[i] \div (MaxCoord + 1)]
          /\ verticalAxis = [i \in 1..Len(l) |-> l[i] % (MaxCoord + 1)]
    /\ rowH \in 1..MaxTile
    /\ colW \in 1..MaxTile
    /\ overlapH \in 0..(OvDen - 1)
    /\ overlapW \in 0..(OvDen - 1)
    /\ areaBrokenMerge \in BOOLEAN
    /\ ptBrokenMerge \in {None} \cup 0..MaxPt
    /\ split_idx = EmptyMap
    /\ assigned = EmptyMap
    /\ start = EmptyMap
    /\ todo = <<>>
    /\ pc = "start"

\* max() of an empty array raises; int() of the nan a zero step yields raises
Raises ==
    \/ Len(horizontalAxis) = 0
    \/ Step(colW, overlapW) = 0
    \/ Step(rowH, overlapH) = 0

Call ==
    /\ pc = "start"
    /\ IF Raises
       THEN pc' = "raised" /\ UNCHANGED <<split_idx, assigned>>
       ELSE pc' = "assigned" /\ split_idx' = CellAssign /\ assigned' = split_idx'
    /\ UNCHANGED <<args, todo, start>>

BoundaryMerge ==
    /\ pc = "assigned"
    /\ split_idx' = BoundaryMerger(split_idx)
    /\ pc' = "merged"
    /\ UNCHANGED <<args, todo, assigned, start>>

SparseBegin ==
    /\ pc = "merged"
    /\ ptBrokenMerge # None
    /\ todo' = KeysInOrder(DOMAIN split_idx)
    /\ start' = split_idx
    /\ pc' = "sparse"
    /\ UNCHANGED <<args, split_idx, assigned>>

SparseStep ==
    /\ pc = "sparse"
    /\ todo # <<>>
    /\ split_idx' = SparseVisit(split_idx, Head(todo))
    /\ todo' = Tail(todo)
    /\ UNCHANGED <<args, pc, assigned, start>>

Return ==
    /\ \/ pc = "merged" /\ ptBrokenMerge = None
       \/ pc = "sparse" /\ todo = <<>>
    /\ pc' = "returned"
    /\ UNCHANGED <<args, split_idx, todo, assigned, start>>

Next == Call \/ BoundaryMerge \/ SparseBegin \/ SparseStep \/ Return

Spec == Init /\ [][Next]_vars

SpecAny == InitAny /\ [][Next]_vars

\* ---- vocabulary of the properties ----
\* the configuration rules of the input contract
ValidConfig ==
    /\ rowH > 0
    /\ colW > 0
    /\ overlapH \in 0..(OvDen - 1)
    /\ overlapW \in 0..(OvDen - 1)

Started == pc \in {"assigned", "merged", "sparse", "returned"}

\* number of occurrences of index p in a list
Occ(list, p) == Len(SelectSeq(list, LAMBDA e: e = p))

\* the (tileKey, position) pairs of a mapping
Pairs(map) == UNION {{<<k, i>> : i \in 1..Len(map[k])} : k \in DOMAIN map}
\* sum(len(v) for v in map.values())
TotalLen(map) == Cardinality(Pairs(map))
\* number of pairs of the mapping that hold index p
TotalOcc(map, p) == Cardinality({e \in Pairs(map) : map[e[1]][e[2]] = p})

Indices == 0..(Len(horizontalAxis) - 1)
Elems(list) == {list[i] : i \in 1..Len(list)}
NoDup(list) == Cardinality(Elems(list)) = Len(list)

\* 8-connected, declaratively
Adjacent(a, b) ==
    /\ a # b
    /\ a[1] - b[1] \in {0 - 1, 0, 1}
    /\ a[2] - b[2] \in {0 - 1, 0, 1}
PresentNeighbours(map, k) == {b \in DOMAIN map : Adjacent(k, b)}
\* position of neighbour b of k in the enumeration di outer, dj inner
Rank(k, b) == 3 * (b[1] - k[1] + 1) + (b[2] - k[2] + 1)

\* same keys and, per key, the same collection of indices
SameMapping(m1, m2) ==
    /\ DOMAIN m1 = DOMAIN m2
    /\ \A k \in DOMAIN m1 : \A p \in Indices : Occ(m1[k], p) = Occ(m2[k], p)

\* ---- C1 ----
\* C1 (merge neutrality): at every point after the Cell Assigner, and in the
\* returned mapping, the sum of the list lengths equals the sum right after the
\* Cell Assigner, and every index occurs as often over the whole mapping as
\* the Cell Assigner assigned it: no merge drops or adds an index.
C1_MergeNeutral ==
    Started =>
        /\ TotalLen(split_idx) = TotalLen(assigned)
        /\ \A p \in Indices : TotalOcc(split_idx, p) = TotalOcc(assigned, p)

\* a returned mapping in which boundary merges and sparse merges both took place
C1_Witness ==
    /\ pc = "returned"
    /\ areaBrokenMerge
    /\ ptBrokenMerge # None
    /\ DOMAIN assigned # DOMAIN start
    /\ DOMAIN start # DOMAIN split_idx

\* ---- C2 ----
\* C2 as stated: in the returned mapping no index occurs more than once inside
\* the list of one key.
C2_NoDupWithinKey ==
    pc = "returned" => \A k \in DOMAIN split_idx : NoDup(split_idx[k])

\* C2 amended: the lists built by the Cell Assigner hold no index twice, and
\* neither does a returned mapping no merge has changed; in any returned list an
\* index occurs at most as often as the number of tiles the Cell Assigner put
\* it in.
TilesOf(p) == Cardinality({k \in DOMAIN assigned : p \in Elems(assigned[k])})

C2_NoDupUnlessMerged ==
    /\ pc = "assigned" => \A k \in DOMAIN split_idx : NoDup(split_idx[k])
    /\ pc = "returned" =>
        /\ DOMAIN split_idx = DOMAIN assigned =>
               \A k \in DOMAIN split_idx : NoDup(split_idx[k])
        /\ \A p \in Indices : \A k \in DOMAIN split_idx :
               Occ(split_idx[k], p) <= TilesOf(p)

\* a returned mapping, after merges, with a list that holds an index twice
C2_Witness ==
    /\ pc = "returned"
    /\ \E k \in DOMAIN split_idx : ~NoDup(split_idx[k])

\* ---- C3 ----
\* C3 (coverage): with both overlaps 0 and tile sizes >= 1, the lists of the
\* mapping the Cell Assigner built contain every index 0..N-1.
C3_Coverage ==
    (pc = "assigned" /\ overlapH = 0 /\ overlapW = 0 /\ rowH >= 1 /\ colW >= 1) =>
        UNION {Elems(split_idx[k]) : k \in DOMAIN split_idx} = Indices

\* an assigned mapping of MaxN points spread over several rows and columns
C3_Witness ==
    /\ pc = "assigned" /\ overlapH = 0 /\ overlapW = 0
    /\ Len(horizontalAxis) > 1
    /\ xNums > 0 /\ yNums > 0
    /\ Cardinality(DOMAIN split_idx) > 2

\* ---- C4 ----
\* C4 (configuration rejection): a call with a non-positive tile size or an
\* overlap outside [0,1) ends raised; it never gets as far as a mapping.
C4_InvalidRaises ==
    (pc # "start" /\ ~ValidConfig) => pc = "raised"

\* ---- C5 ----
\* C5 (degenerate input): a call on empty arrays with a valid configuration
\* does not raise (and returns the empty mapping).
C5_EmptyReturnsEmpty ==
    (pc # "start" /\ Len(horizontalAxis) = 0 /\ ValidConfig) =>
        pc # "raised" /\ split_idx = EmptyMap

\* ---- C6 ----
\* C6 (boundary inclusivity): after the Cell Assigner, a point whose coordinate
\* equals axisMin + i*step + tileSize, with tile i+1 generated on that axis, is
\* in the lists of both adjacent tiles (i and i+1) of every row (column) whose
\* range holds its other coordinate.
OnUpperEdge(axis, size, ov, i, v) ==
    OvDen * v = OvDen * SeqMin(axis) + i * Step(size, ov) + OvDen * size
InTile(axis, size, ov, i, v) == Judge(SeqMin(axis), SeqMax(axis), size, ov, i, v)

C6_BoundaryInclusive ==
    pc = "assigned" =>
        \A p \in Indices :
            /\ \A i \in 0..(xNums - 1) : \A n \in 0..yNums :
                   (/\ OnUpperEdge(horizontalAxis, colW, overlapW, i, horizontalAxis[p + 1])
                    /\ InTile(verticalAxis, rowH, overlapH, n, verticalAxis[p + 1]))
                   => /\ <<n, i>> \in DOMAIN split_idx
                      /\ <<n, i + 1>> \in DOMAIN split_idx
                      /\ p \in Elems(split_idx[<<n, i>>])
                      /\ p \in Elems(split_idx[<<n, i + 1>>])
            /\ \A j \in 0..(yNums - 1) : \A m \in 0..xNums :
                   (/\ OnUpperEdge(verticalAxis, rowH, overlapH, j, verticalAxis[p + 1])
                    /\ InTile(horizontalAxis, colW, overlapW, m, horizontalAxis[p + 1]))
                   => /\ <<j, m>> \in DOMAIN split_idx
                      /\ <<j + 1, m>> \in DOMAIN split_idx
                      /\ p \in Elems(split_idx[<<j, m>>])
                      /\ p \in Elems(split_idx[<<j + 1, m>>])

\* an assigned mapping with a point on the upper edge of a column that is not
\* the last one, and a point on the upper edge of a row that is not the last
C6_Witness ==
    /\ pc = "assigned"
    /\ \E p \in Indices : \E i \in 0..(xNums - 1) :
           OnUpperEdge(horizontalAxis, colW, overlapW, i, horizontalAxis[p + 1])
    /\ \E p \in Indices : \E j \in 0..(yNums - 1) :
           OnUpperEdge(verticalAxis, rowH, overlapH, j, verticalAxis[p + 1])

\* ---- C7 ----
\* C7 (unmergeable isolation): a tile that is sparse when the Sparse Merger
\* starts and has none of its 8 neighbour keys present then, is a key of the
\* returned mapping with exactly the list it had at the start of the pass.
IsolatedSparse(map, k) ==
    /\ Len(map[k]) <= ptBrokenMerge
    /\ PresentNeighbours(map, k) = {}

C7_IsolatedKept ==
    (pc = "returned" /\ ptBrokenMerge # None) =>
        \A k \in DOMAIN start :
            IsolatedSparse(start, k) =>
                k \in DOMAIN split_idx /\ split_idx[k] = start[k]

\* a returned mapping where the pass merged some tile and left an isolated
\* sparse tile alone
C7_Witness ==
    /\ pc = "returned" /\ ptBrokenMerge # None
    /\ \E k \in DOMAIN start : IsolatedSparse(start, k)
    /\ DOMAIN start # DOMAIN split_idx

\* ---- C8 ----
\* the mapping the other order of the two boundary merges would give
RowsThenColumns == ColStage(RowStage(assigned))
BothRules == areaBrokenMerge /\ ColRule /\ RowRule

\* C8 as stated: when both boundary rules apply, merging columns then rows (the
\* mapping the Boundary Merger leaves) equals merging rows then columns.
C8_OrderIndependent ==
    (pc = "merged" /\ BothRules) => SameMapping(split_idx, RowsThenColumns)

\* the corner tile is present together with exactly two of the three other
\* tiles of the bottom-right 2x2 block
CornerBroken(map) ==
    /\ <<yNums, xNums>> \in DOMAIN map
    /\ Cardinality({<<yNums - 1, xNums - 1>>, <<yNums - 1, xNums>>, <<yNums, xNums - 1>>}
                   \cap DOMAIN map) = 2

\* C8 amended: when both boundary rules apply, the two orders give the same
\* mapping exactly when it is not the case that the corner tile (last row, last
\* column) is present with exactly two of the three other tiles of the
\* bottom-right 2x2 block.
C8_OrderIndependentUnlessCorner ==
    (pc = "merged" /\ BothRules) =>
        (SameMapping(split_idx, RowsThenColumns) <=> ~CornerBroken(assigned))

\* both rules merged something, corner tile included, and the orders agree
C8_Witness ==
    /\ pc = "merged" /\ BothRules
    /\ xNums > 0 /\ yNums > 0
    /\ <<yNums, xNums>> \in DOMAIN assigned
    /\ ~CornerBroken(assigned)
    /\ Cardinality(DOMAIN assigned) - Cardinality(DOMAIN split_idx) > 2
    /\ \E k \in DOMAIN assigned : k[1] < yNums - 1 \/ k[2] < xNums - 1

\* ---- C9 ----
\* the visited tile is sparse and has a present neighbour
SparseCase ==
    /\ pc = "sparse" /\ todo # <<>>
    /\ Head(todo) \in DOMAIN split_idx
    /\ Len(split_idx[Head(todo)]) <= ptBrokenMerge
    /\ PresentNeighbours(split_idx, Head(todo)) # {}

\* r is the present neighbour of k with the smallest live count, the first
\* enumerated among the smallest
Chosen(map, k, r) ==
    /\ r \in PresentNeighbours(map, k)
    /\ \A o \in PresentNeighbours(map, k) :
           \/ Len(map[r]) < Len(map[o])
           \/ Len(map[r]) = Len(map[o]) /\ Rank(k, r) <= Rank(k, o)

====
